---- MODULE Spec2Model ----
(***************************************************************************)
(* Inventory backend: materials, audit logs and bin transactions.          *)
(* The request handlers of routes.ts are modelled one store statement      *)
(* (one `await storage.x`) per step, so that concurrently running requests *)
(* interleave exactly where the Node event loop lets them interleave.      *)
(* The strict variant is client/src/frontend/server/backend/routes.ts, the *)
(* lenient one server/routes.ts (no location check, no bin transactions);  *)
(* both run on the DatabaseStorage of backend/storage.ts.                  *)
(* The GET handlers (logs, stats, materials?search=) and DELETE logs are   *)
(* modelled the same way; search terms are sequences of characters, and    *)
(* log timestamps are counted in half days.                                *)
(***************************************************************************)
EXTENDS Integers, Sequences, FiniteSets, TLC

VARIABLES
    variant,    \* "strict" (client/.../backend/routes.ts) or "lenient" (server/routes.ts)
    materials,  \* table materials: code -> row (present = FALSE: no row)
    logs,       \* table logs, in insertion (timestamp) order
    binTransactions, \* table bin_transactions, in insertion order
    pc,         \* per request slot: the await the handler is suspended at
    req,        \* per request slot: the parsed input of the running request
    existing,   \* per request slot: the handler's local `existing`
    material,   \* per request slot: the handler's local `material`
    balance,    \* per request slot: createLog's local `balanceQty`
    res,        \* per request slot: the response sent (status, error)
    pre,        \* per request slot: the store when the request arrived
    served,     \* number of requests answered so far
    fresh,      \* per code: the entry calls since the code last had no row
    now,        \* the clock (new Date()), in half days
    logTimes,   \* column timestamp of table logs: logTimes[i] is that of logs[i]
    body,       \* per request slot: the result of a GET handler, as far as built
    seen,       \* per request slot: the dashboards of the stores a stats call has lived through
    plain,      \* the requested code began without a row and only entry/issue/GET calls were answered
    cleared     \* clearLogs was answered and no entry or issue since

vars == <<variant, materials, logs, binTransactions, pc, req, existing,
          material, balance, res, pre, served, fresh,
          now, logTimes, body, seen, plain, cleared>>

----------------------------------------------------------------------------
(* Bounds of the model *)

MaxOps == 3     \* requests served in one behaviour, one at a time
MaxConcOps == 2 \* requests served in one behaviour, running concurrently

MaxTime == 2    \* the clock stops after this many half days

(* Program constants *)

DefaultLimit == 50 \* getLogs(limit = 50)
RecentLimit == 10  \* getDashboardStats: this.getLogs(10)

SeedQty == 100  \* seed(): TRIM-001 starts with quantity 100
SeedQty2 == 50  \* seed(): TRIM-002 starts with quantity 50

Procs == {"r1", "r2"}                  \* request slots (concurrent handlers)
Codes == {"TRIM-001", "TRIM-002"}      \* the rows seed() creates (two of them)
ReqCodes == {"TRIM-001"}               \* the code the requests are about
Quantities == {1, 2}                   \* the quantities the requests ask for
\* rack/bin pairs an entry may supply: another bin, another rack
EntryLocs == { <<"A1", "7b">>, <<"B2", "01">> }
\* the pairs supplied by requests that run concurrently
ConcLocs == { <<"A1", "01">>, <<"B2", "01">> }
\* rack/bin pairs an issue may supply: the seeded location, a rack that
\* differs only in case, another rack, another bin, a bin differing only in case
IssueLocs == { <<"A1", "01">>, <<"a1", "01">>, <<"B2", "01">>,
               <<"A1", "7b">>, <<"A1", "7B">> }

\* rack/bin pairs of the entries that search requests follow
SearchLocs == { <<"a1", "7B">>, <<"B2", "15">> }
\* the rack and bin values that search terms name
SearchRacks == {"A1", "a1", "B2"}
SearchBins == {"01", "15", "7b", "7B"}
\* the pair supplied by the requests that run beside a stats call
StatsLocs == { <<"A1", "01">> }

----------------------------------------------------------------------------
(* String.prototype.toUpperCase on the strings of the model *)
toUpperCase(s) ==
    CASE s = "a1" -> "A1"
      [] s = "7b" -> "7B"
      [] OTHER -> s

NoRow == [present |-> FALSE, quantity |-> 0, rack |-> "", bin |-> ""]

Row(q, r, b) == [present |-> TRUE, quantity |-> q, rack |-> r, bin |-> b]

NoReq == [op |-> "none", code |-> "", quantity |-> 0, rack |-> "", bin |-> ""]

NoRes == [status |-> 0, error |-> "None"]

\* nothing built yet of the result of a GET handler: the locals of
\* getDashboardStats, the rows of GET logs, the search term and the codes
\* of the rows of GET materials
NoBody == [today |-> 0, totalMaterials |-> 0, enteredToday |-> 0,
           issuedToday |-> 0, recentLogs |-> << >>, logs |-> << >>,
           search |-> << >>, materials |-> {}]

Store == [materials |-> materials, logs |-> logs, binTransactions |-> binTransactions]

----------------------------------------------------------------------------
(* Strings as sequences of characters, and the String methods getMaterials
   uses *)

\* the characters of the strings of the model
Chars(s) ==
    CASE s = "A1" -> <<"A", "1">>
      [] s = "a1" -> <<"a", "1">>
      [] s = "B2" -> <<"B", "2">>
      [] s = "01" -> <<"0", "1">>
      [] s = "15" -> <<"1", "5">>
      [] s = "7b" -> <<"7", "b">>
      [] s = "7B" -> <<"7", "B">>
      [] s = "-" -> <<"-">>
      [] s = ":" -> <<":">>
      [] s = "rack:" -> <<"r", "a", "c", "k", ":">>
      [] s = "bin:" -> <<"b", "i", "n", ":">>
      [] s = "TRIM-001" -> <<"T", "R", "I", "M", "-", "0", "0", "1">>
      [] s = "TRIM-002" -> <<"T", "R", "I", "M", "-", "0", "0", "2">>
      [] OTHER -> << >>

LowerChar(ch) ==
    CASE ch = "A" -> "a"
      [] ch = "B" -> "b"
      [] ch = "I" -> "i"
      [] ch = "M" -> "m"
      [] ch = "R" -> "r"
      [] ch = "T" -> "t"
      [] OTHER -> ch

\* (mutant: the search value keeps its letter case)
toLowerCaseKept(cs) == cs

\* String.prototype.toLowerCase
toLowerCase(cs) == [i \in 1..Len(cs) |-> LowerChar(cs[i])]

\* SQL lower()
lower(cs) == [i \in 1..Len(cs) |-> LowerChar(cs[i])]

\* the positions at which sub occurs in cs
Occurrences(cs, sub) ==
    {i \in 1..(Len(cs) - Len(sub) + 1) : SubSeq(cs, i, i + Len(sub) - 1) = sub}

\* String.prototype.includes
includes(cs, sub) == Occurrences(cs, sub) # {}

\* String.prototype.startsWith
startsWith(cs, sub) == 1 \in Occurrences(cs, sub)

\* String.prototype.replace with a string pattern: the first occurrence
replace(cs, sub, by) ==
    IF ~includes(cs, sub) THEN cs
    ELSE LET i == CHOOSE k \in Occurrences(cs, sub) :
                      \A m \in Occurrences(cs, sub) : k <= m
         IN  SubSeq(cs, 1, i - 1) \o by \o SubSeq(cs, i + Len(sub), Len(cs))

\* String.prototype.split with a separator of one character
RECURSIVE split(_, _)
split(cs, sep) ==
    IF ~includes(cs, sep) THEN <<cs>>
    ELSE LET i == CHOOSE k \in Occurrences(cs, sep) :
                      \A m \in Occurrences(cs, sep) : k <= m
         IN  <<SubSeq(cs, 1, i - 1)>> \o split(SubSeq(cs, i + 1, Len(cs)), sep)

\* String.prototype.trim
RECURSIVE trim(_)
trim(cs) ==
    IF cs # << >> /\ cs[1] = " " THEN trim(Tail(cs))
    ELSE IF cs # << >> /\ cs[Len(cs)] = " " THEN trim(SubSeq(cs, 1, Len(cs) - 1))
    ELSE cs

\* the term `rack:<R>-bin:<B>`
RackBinTerm(rack, bin) ==
    Chars("rack:") \o Chars(rack) \o Chars("-") \o Chars("bin:") \o Chars(bin)

----------------------------------------------------------------------------
(* storage.ts: the statements of DatabaseStorage, as functions of the table *)

\* getMaterialByCode: the row with that code, or undefined (NoRow)
getMaterialByCode(ms, code) == ms[code]

\* the materials table declares code unique: an insert of a code that
\* already has a row is rejected by the store
UniqueViolation(ms, code) == ms[code].present

\* createMaterial: insert ... returning
createMaterial(ms, code, q, r, b) == [ms EXCEPT ![code] = Row(q, r, b)]

\* the row after `set({...updates})`: the fields named in updates replaced
SetFields(row, updates) ==
    [f \in DOMAIN row |-> IF f \in DOMAIN updates THEN updates[f] ELSE row[f]]

\* (mutant: an update that matches no row inserts one)
updateMaterialUpsert(ms, code, updates) ==
    [ms EXCEPT ![code] = [SetFields(ms[code], updates) EXCEPT !.present = TRUE]]

\* updateMaterial: update ... where code = code; no row matched: no change
updateMaterial(ms, code, updates) ==
    IF ms[code].present
    THEN [ms EXCEPT ![code] = SetFields(ms[code], updates)]
    ELSE ms

\* deleteMaterial: delete ... where code = code
deleteMaterial(ms, code) == [ms EXCEPT ![code] = NoRow]

\* (mutant: the rows are deleted instead of updated)
resetInventoryDeleting(ms) == [c \in DOMAIN ms |-> NoRow]

\* resetInventory: update materials set quantity = 0 (every row)
resetInventory(ms) ==
    [c \in DOMAIN ms |-> IF ms[c].present THEN SetFields(ms[c], [quantity |-> 0])
                                          ELSE ms[c]]

\* (mutant: the balance is not read from the material)
BalanceQtyUnread(row) == 0

\* createLog, first statement: balanceQty = material ? material.quantity : 0
BalanceQty(row) == IF row.present THEN row.quantity ELSE 0

\* createLog, second statement: the row inserted into logs
LogRow(r, action, balanceQty) ==
    [materialCode |-> r.code, action |-> action, quantity |-> r.quantity,
     rack |-> r.rack, bin |-> r.bin, balanceQty |-> balanceQty]

\* (mutant: the received and the issued quantity change places)
BinTransactionRowSwapped(r, m) ==
    [materialCode |-> r.code, binLocation |-> <<r.rack, "-", r.bin>>,
     receivedQty |-> IF r.op = "issue" THEN r.quantity ELSE 0,
     issuedQty |-> IF r.op = "entry" THEN r.quantity ELSE 0,
     balanceQty |-> m.quantity]

\* the row the handlers pass to createBinTransaction
BinTransactionRow(r, m) ==
    [materialCode |-> r.code, binLocation |-> <<r.rack, "-", r.bin>>,
     receivedQty |-> IF r.op = "entry" THEN r.quantity ELSE 0,
     issuedQty |-> IF r.op = "issue" THEN r.quantity ELSE 0,
     balanceQty |-> m.quantity]

\* getMaterials, first branch: the term holds both markers
IsRackBinSearch(search) ==
    includes(search, Chars("rack:")) /\ includes(search, Chars("bin:"))

\* getMaterials, first branch: parts[1] is undefined when the term holds no
\* hyphen, and `.replace` of undefined throws
SearchThrows(search) ==
    IsRackBinSearch(search) /\ Len(split(search, Chars("-"))) < 2

\* getMaterials: the where clause of the branch the term selects
Matches(row, code, search) ==
    IF search = << >> THEN TRUE
    ELSE IF IsRackBinSearch(search)
    THEN LET parts == split(search, Chars("-"))
             rackVal == toLowerCase(trim(replace(parts[1], Chars("rack:"), << >>)))
             binVal == toLowerCase(trim(replace(parts[2], Chars("bin:"), << >>)))
         IN  lower(Chars(row.rack)) = rackVal /\ lower(Chars(row.bin)) = binVal
    ELSE IF startsWith(search, Chars("rack:"))
    THEN LET rackVal == toLowerCase(trim(split(search, Chars(":"))[2]))
         IN  startsWith(lower(Chars(row.rack)), rackVal)
    ELSE \/ includes(lower(Chars(code)), lower(search))
         \/ includes(lower(Chars(row.rack)), lower(search))
         \/ includes(lower(Chars(row.bin)), lower(search))
         \/ includes(lower(Chars(row.rack) \o Chars("-") \o Chars(row.bin)),
                     lower(search))

\* getMaterials: the codes of the rows selected
getMaterials(ms, search) ==
    {c \in DOMAIN ms : ms[c].present /\ Matches(ms[c], c, search)}

\* (mutant: the newest log survives)
clearLogsButNewest(ls) == IF ls = << >> THEN ls ELSE <<ls[Len(ls)]>>

\* clearLogs: delete from logs (applied to each column)
clearLogs(ls) == << >>

\* getLogs: order by timestamp desc limit `limit`
getLogs(ls, ts, limit) ==
    LET n == Len(ls)
        k == IF n < limit THEN n ELSE limit
    IN  [i \in 1..k |-> [log |-> ls[n + 1 - i], timestamp |-> ts[n + 1 - i]]]

\* startOfDay(new Date()): a day is two half days
startOfDay(t) == t - (t % 2)

\* getDashboardStats: select count(*) from materials
CountMaterials(ms) == Cardinality({c \in DOMAIN ms : ms[c].present})

\* getDashboardStats: select count(*) from logs where action = .. and
\* timestamp >= today
CountLogs(ls, ts, action, today) ==
    Cardinality({i \in 1..Len(ls) : ls[i].action = action /\ ts[i] >= today})

\* getDashboardStats: the object returned
StatsOf(b) ==
    [totalMaterials |-> b.totalMaterials, enteredToday |-> b.enteredToday,
     issuedToday |-> b.issuedToday, recentLogs |-> b.recentLogs]

----------------------------------------------------------------------------
(* routes.ts: the decisions of the handlers *)

\* (mutant: an entry that adds the quantity and keeps the old location)
EntryUpdatesKeepLocation(ex, r) == [quantity |-> ex.quantity + r.quantity]

\* api.actions.entry.input / api.actions.issue.input: a non-empty code, a
\* positive integer quantity, non-empty rack and bin
ValidInput(r) ==
    /\ r.code # "" /\ r.rack # "" /\ r.bin # ""
    /\ r.quantity \in Nat \ {0}

\* entry: the updates passed to updateMaterial
EntryUpdates(ex, r) ==
    [quantity |-> ex.quantity + r.quantity, rack |-> r.rack, bin |-> r.bin]

\* issue: the updates passed to updateMaterial
IssueUpdates(ex, r) == [quantity |-> ex.quantity - r.quantity]

\* issue, strict variant: the location check
LocationDiffers(ex, r) ==
    toUpperCase(ex.rack) # toUpperCase(r.rack) \/ ex.bin # r.bin

\* (mutant: the quantity is checked before the location)
IssueErrorQuantityFirst(v, ex, r) ==
    IF ~ex.present THEN "NotFound"
    ELSE IF ex.quantity < r.quantity THEN "InsufficientQuantity"
    ELSE IF v = "strict" /\ LocationDiffers(ex, r) THEN "LocationMismatch"
    ELSE "None"

\* (mutant: the quantity is not checked)
IssueErrorNoQuantityCheck(v, ex, r) ==
    IF ~ex.present THEN "NotFound"
    ELSE IF v = "strict" /\ LocationDiffers(ex, r) THEN "LocationMismatch"
    ELSE "None"

\* issue: the early returns, in the order of the source
IssueError(v, ex, r) ==
    IF ~ex.present THEN "NotFound"
    ELSE IF v = "strict" /\ LocationDiffers(ex, r) THEN "LocationMismatch"
    ELSE IF ex.quantity < r.quantity THEN "InsufficientQuantity"
    ELSE "None"

StatusOf(error) ==
    CASE error = "NotFound" -> 404
      [] error \in {"LocationMismatch", "InsufficientQuantity"} -> 400
      [] OTHER -> 500

\* (mutant: every entry is reported as created)
EntryStatusAlwaysCreated(ex) == 201

\* entry: res.status(existing ? 200 : 201)
EntryStatus(ex) == IF ex.present THEN 200 ELSE 201

----------------------------------------------------------------------------
InFlight == {p \in Procs : pc[p] \notin {"idle", "done"}}

\* a request may arrive at a free slot while the budget of requests lasts
\* (the lowest free slot takes it)
CanBegin(p, budget) ==
    /\ pc[p] \in {"idle", "done"}
    /\ (p = "r2" => pc["r1"] \notin {"idle", "done"})
    /\ served + Cardinality(InFlight) < budget

\* bookkeeping for sequences of entry calls on a code without a row: the
\* calls since a delete of the code, while they are successful entries only
NotFresh == [clean |-> FALSE, calls |-> 0, sum |-> 0]

Fresh == [clean |-> TRUE, calls |-> 0, sum |-> 0]

FreshAfter(f, r, response) ==
    IF r.op = "delete" THEN Fresh
    ELSE IF r.op = "entry" /\ response.status \in {200, 201} /\ f.clean
    THEN [clean |-> TRUE, calls |-> f.calls + 1, sum |-> f.sum + r.quantity]
    ELSE NotFresh

\* a response is sent for request r
Answered(r, response) ==
    /\ served' = served + 1
    /\ fresh' = [c \in Codes |-> IF c = r.code \/ r.op = "reset"
                                  THEN FreshAfter(fresh[c], r, response)
                                  ELSE fresh[c]]
    /\ plain' = (plain /\ r.op \notin {"delete", "reset", "clearLogs"})
    /\ cleared' = IF r.op = "clearLogs" THEN TRUE
                  ELSE IF r.op \in {"entry", "issue"} THEN FALSE
                  ELSE cleared

\* the response of slot p is sent after its last statement
Respond(p, r, response) ==
    /\ pc' = [pc EXCEPT ![p] = "done"]
    /\ res' = [res EXCEPT ![p] = response]
    /\ Answered(r, response)

NoPre == [materials |-> [c \in Codes |-> NoRow], logs |-> << >>,
          binTransactions |-> << >>]

\* slot p takes value v; the slots whose response was sent are released
Take(f, p, v, blank) ==
    [x \in Procs |-> IF x = p THEN v ELSE IF pc[x] = "done" THEN blank ELSE f[x]]

\* a request r arrives at slot p and its first statement is answered with
\* ex; the handler then waits at `next`, or has sent `response` (next = "done")
Arrive(p, r, ex, next, response) ==
    /\ pc' = Take(pc, p, next, "idle")
    /\ req' = Take(req, p, r, NoReq)
    /\ existing' = Take(existing, p, ex, NoRow)
    /\ material' = Take(material, p, NoRow, NoRow)
    /\ balance' = Take(balance, p, 0, 0)
    /\ pre' = Take(pre, p, Store, NoPre)
    /\ res' = Take(res, p, response, NoRes)
    /\ IF next = "done" THEN Answered(r, response)
                        ELSE UNCHANGED <<served, fresh, plain, cleared>>

\* bookkeeping for stats calls: what a dashboard taken from the store
\* (ms, ls, ts) in one instant shows, for a call that began on day `today`
DashboardOf(ms, ls, ts, today) ==
    LET todays == {i \in 1..Len(ls) : today <= ts[i]}
        newest == [i \in 1..Len(ls) |->
                      [log |-> ls[Len(ls) + 1 - i], timestamp |-> ts[Len(ls) + 1 - i]]]
    IN  [totalMaterials |-> Cardinality({c \in Codes : ms[c] # NoRow}),
         enteredToday |-> Cardinality({i \in todays : ls[i].action = "entry"}),
         issuedToday |-> Cardinality({i \in todays : ls[i].action = "issue"}),
         recentLogs |-> IF Len(ls) <= RecentLimit THEN newest
                        ELSE SubSeq(newest, 1, RecentLimit)]

StatsPcs == {"statsEntered", "statsIssued", "statsRecent"}

\* bookkeeping for stats calls: every store a running call lives through,
\* from its arrival to its response, adds its dashboard to seen
Observe ==
    seen' = [p \in Procs |->
               IF req'[p].op = "stats" /\ pc'[p] \in StatsPcs \cup {"done"}
               THEN IF pc[p] \in StatsPcs
                    THEN seen[p] \cup {DashboardOf(materials', logs', logTimes',
                                                   body'[p].today)}
                    ELSE IF pc'[p] \in StatsPcs
                    THEN {DashboardOf(materials', logs', logTimes', body'[p].today)}
                    ELSE seen[p]
               ELSE {}]

\* seed(): the rows of a database started empty
Seeded ==
    [c \in Codes |-> IF c = "TRIM-001" THEN Row(SeedQty, "A1", "01")
                                        ELSE Row(SeedQty2, "B2", "15")]

\* seed() of the lenient variant: createLog for TRIM-001
SeedLog ==
    LogRow([code |-> "TRIM-001", quantity |-> SeedQty, rack |-> "A1", bin |-> "01"],
           "entry", BalanceQty(Seeded["TRIM-001"]))

\* the database is either freshly seeded, or one of an earlier run in which
\* TRIM-001 was deleted and the logs were cleared
Init ==
    /\ variant \in {"strict", "lenient"}
    /\ materials \in {Seeded, deleteMaterial(Seeded, "TRIM-001")}
    /\ logs = IF variant = "lenient" /\ materials = Seeded THEN <<SeedLog>> ELSE << >>
    /\ binTransactions = << >>
    /\ pc = [p \in Procs |-> "idle"]
    /\ req = [p \in Procs |-> NoReq]
    /\ existing = [p \in Procs |-> NoRow]
    /\ material = [p \in Procs |-> NoRow]
    /\ balance = [p \in Procs |-> 0]
    /\ res = [p \in Procs |-> NoRes]
    /\ pre = [p \in Procs |-> NoPre]
    /\ served = 0
    /\ fresh = [c \in Codes |-> IF materials[c].present THEN NotFresh ELSE Fresh]
    /\ now = 0
    /\ logTimes = [i \in 1..Len(logs) |-> now]
    /\ body = [p \in Procs |-> NoBody]
    /\ seen = [p \in Procs |-> {}]
    /\ plain = (logs = << >> /\ \A c \in ReqCodes : ~materials[c].present)
    /\ cleared = FALSE

----------------------------------------------------------------------------
(* POST actions/entry *)

\* input parsed, `existing = await getMaterialByCode(code)` answered
EntryStart(p, budget, locs) ==
    \E c \in ReqCodes, q \in Quantities, l \in locs :
        LET r == [op |-> "entry", code |-> c, quantity |-> q,
                  rack |-> l[1], bin |-> l[2]]
        IN  /\ CanBegin(p, budget)
            /\ ValidInput(r)
            /\ Arrive(p, r, getMaterialByCode(materials, c), "entryWrite", NoRes)
            /\ UNCHANGED <<variant, now, materials, logs, logTimes, binTransactions>>
            /\ body' = Take(body, p, NoBody, NoBody)
            /\ Observe

\* `material = await updateMaterial(...)` or `await createMaterial(...)`
EntryWrite(p) ==
    /\ pc[p] = "entryWrite"
    /\ LET r == req[p]
           ex == existing[p]
       IN  IF ex.present
           THEN /\ materials' = updateMaterial(materials, r.code, EntryUpdates(ex, r))
                /\ material' = [material EXCEPT ![p] = materials'[r.code]]
                /\ pc' = [pc EXCEPT ![p] = "logRead"]
                /\ UNCHANGED <<res, served, fresh, plain, cleared>>
           ELSE IF UniqueViolation(materials, r.code)
           THEN /\ Respond(p, r, [status |-> 500, error |-> "UniqueViolation"])
                /\ UNCHANGED <<materials, material>>
           ELSE /\ materials' = createMaterial(materials, r.code, r.quantity, r.rack, r.bin)
                /\ material' = [material EXCEPT ![p] = materials'[r.code]]
                /\ pc' = [pc EXCEPT ![p] = "logRead"]
                /\ UNCHANGED <<res, served, fresh, plain, cleared>>
    /\ UNCHANGED <<variant, now, logs, logTimes, binTransactions, body, req, existing, balance, pre>>
    /\ Observe

(* POST actions/issue *)

\* (mutant: the material is updated before the quantity is checked)
IssueStartWriteFirst(p, budget, locs) ==
    \E c \in ReqCodes, q \in Quantities, l \in locs :
        LET r == [op |-> "issue", code |-> c, quantity |-> q,
                  rack |-> l[1], bin |-> l[2]]
            ex == getMaterialByCode(materials, c)
            error == IssueError(variant, ex, r)
        IN  /\ CanBegin(p, budget)
            /\ ValidInput(r)
            /\ IF error = "None"
               THEN Arrive(p, r, ex, "issueWrite", NoRes)
               ELSE Arrive(p, r, ex, "done", [status |-> StatusOf(error), error |-> error])
            /\ materials' = IF error = "InsufficientQuantity"
                            THEN updateMaterial(materials, c, IssueUpdates(ex, r))
                            ELSE materials
            /\ UNCHANGED <<variant, now, logs, logTimes, binTransactions>>
            /\ body' = Take(body, p, NoBody, NoBody)
            /\ Observe

\* input parsed, `existing = await getMaterialByCode(code)` answered, and
\* the early returns taken
IssueStart(p, budget, locs) ==
    \E c \in ReqCodes, q \in Quantities, l \in locs :
        LET r == [op |-> "issue", code |-> c, quantity |-> q,
                  rack |-> l[1], bin |-> l[2]]
            ex == getMaterialByCode(materials, c)
            error == IssueError(variant, ex, r)
        IN  /\ CanBegin(p, budget)
            /\ ValidInput(r)
            /\ IF error = "None"
               THEN Arrive(p, r, ex, "issueWrite", NoRes)
               ELSE Arrive(p, r, ex, "done", [status |-> StatusOf(error), error |-> error])
            /\ UNCHANGED <<variant, now, materials, logs, logTimes, binTransactions>>
            /\ body' = Take(body, p, NoBody, NoBody)
            /\ Observe

\* `material = await updateMaterial(code, {quantity: existing.quantity - quantity})`
IssueWrite(p) ==
    /\ pc[p] = "issueWrite"
    /\ LET r == req[p]
       IN  /\ materials' = updateMaterial(materials, r.code, IssueUpdates(existing[p], r))
           /\ material' = [material EXCEPT ![p] = materials'[r.code]]
    /\ pc' = [pc EXCEPT ![p] = "logRead"]
    /\ UNCHANGED <<variant, now, logs, logTimes, binTransactions, body, req, existing, balance, res, pre, served, fresh, plain, cleared>>
    /\ Observe

(* createLog, called by both handlers *)

\* createLog: `material = await this.getMaterialByCode(materialCode)`
CreateLogRead(p) ==
    /\ pc[p] = "logRead"
    /\ balance' = [balance EXCEPT
                     ![p] = BalanceQty(getMaterialByCode(materials, req[p].code))]
    /\ pc' = [pc EXCEPT ![p] = "logInsert"]
    /\ UNCHANGED <<variant, now, materials, logs, logTimes, binTransactions, body, req, existing,
                   material, res, pre, served, fresh, plain, cleared>>
    /\ Observe

\* the status of a request whose writes are all done
FinalStatus(r, ex) == IF r.op = "entry" THEN EntryStatus(ex) ELSE 200

\* createLog: `insert into logs`; the lenient handler then responds, the
\* strict one builds the bin transaction (`material.quantity` throws a
\* TypeError when updateMaterial matched no row and returned undefined)
CreateLogInsert(p) ==
    /\ pc[p] = "logInsert"
    /\ logs' = Append(logs, LogRow(req[p], req[p].op, balance[p]))
    /\ logTimes' = Append(logTimes, now)
    /\ IF variant = "lenient"
       THEN Respond(p, req[p], [status |-> FinalStatus(req[p], existing[p]),
                                error |-> "None"])
       ELSE IF ~material[p].present
       THEN Respond(p, req[p], [status |-> 500, error |-> "TypeError"])
       ELSE /\ pc' = [pc EXCEPT ![p] = "binTx"]
            /\ UNCHANGED <<res, served, fresh, plain, cleared>>
    /\ UNCHANGED <<variant, now, materials, binTransactions, body, req, existing, material,
                   balance, pre>>
    /\ Observe

\* strict variant: `await createBinTransaction(...)`, then the response
CreateBinTransaction(p) ==
    /\ pc[p] = "binTx"
    /\ binTransactions' = Append(binTransactions, BinTransactionRow(req[p], material[p]))
    /\ Respond(p, req[p], [status |-> FinalStatus(req[p], existing[p]), error |-> "None"])
    /\ UNCHANGED <<variant, now, materials, logs, logTimes, body, req, existing, material, balance, pre>>
    /\ Observe

\* the store rejects the statement a handler is waiting for: the await
\* throws, the handler rethrows (no ZodError), the request ends in an error
StoreFails(p) ==
    /\ pc[p] \in {"logInsert", "binTx"}
    /\ Respond(p, req[p], [status |-> 500, error |-> "StoreUnavailable"])
    /\ UNCHANGED <<variant, now, materials, logs, logTimes, binTransactions, body, req, existing,
                   material, balance, pre>>
    /\ Observe

(* DELETE materials/:code *)
DeleteMaterial(p, budget) ==
    \E c \in ReqCodes :
        LET r == [NoReq EXCEPT !.op = "delete", !.code = c]
        IN  /\ CanBegin(p, budget)
            /\ Arrive(p, r, NoRow, "done", [status |-> 200, error |-> "None"])
            /\ materials' = deleteMaterial(materials, c)
            /\ UNCHANGED <<variant, now, logs, logTimes, binTransactions>>
            /\ body' = Take(body, p, NoBody, NoBody)
            /\ Observe

(* POST materials/reset *)
ResetInventory(p, budget) ==
    LET r == [NoReq EXCEPT !.op = "reset"]
    IN  /\ CanBegin(p, budget)
        /\ Arrive(p, r, NoRow, "done", [status |-> 200, error |-> "None"])
        /\ materials' = resetInventory(materials)
        /\ UNCHANGED <<variant, now, logs, logTimes, binTransactions>>
        /\ body' = Take(body, p, NoBody, NoBody)
        /\ Observe

(* DELETE logs *)
ClearLogs(p, budget) ==
    LET r == [NoReq EXCEPT !.op = "clearLogs"]
    IN  /\ CanBegin(p, budget)
        /\ Arrive(p, r, NoRow, "done", [status |-> 200, error |-> "None"])
        /\ logs' = clearLogs(logs)
        /\ logTimes' = clearLogs(logTimes)
        /\ UNCHANGED <<variant, now, materials, binTransactions>>
        /\ body' = Take(body, p, NoBody, NoBody)
        /\ Observe

(* GET logs *)
ListLogs(p, budget) ==
    LET r == [NoReq EXCEPT !.op = "listLogs"]
    IN  /\ CanBegin(p, budget)
        /\ Arrive(p, r, NoRow, "done", [status |-> 200, error |-> "None"])
        /\ body' = Take(body, p,
                        [NoBody EXCEPT !.logs = getLogs(logs, logTimes, DefaultLimit)],
                        NoBody)
        /\ UNCHANGED <<variant, now, materials, logs, logTimes, binTransactions>>
        /\ Observe

(* GET materials?search= *)

\* the search terms of the requests: `rack:<R>-bin:<B>` for the racks and
\* bins named, a rack prefix, a free text, the markers without a hyphen,
\* and no term
SearchQueries ==
    {[rack |-> q[1], bin |-> q[2], search |-> RackBinTerm(q[1], q[2])] :
         q \in SearchRacks \X SearchBins}
    \cup {[rack |-> "", bin |-> "", search |-> t] :
             t \in {Chars("rack:") \o <<"a">>, Chars("7b"),
                    Chars("rack:") \o Chars("A1") \o Chars("bin:") \o Chars("01"),
                    << >>}}

ListMaterials(p, budget) ==
    \E q \in SearchQueries :
        LET r == [NoReq EXCEPT !.op = "listMaterials", !.rack = q.rack, !.bin = q.bin]
            b == [NoBody EXCEPT !.search = q.search]
        IN  /\ CanBegin(p, budget)
            /\ IF SearchThrows(q.search)
               THEN /\ Arrive(p, r, NoRow, "done", [status |-> 500, error |-> "TypeError"])
                    /\ body' = Take(body, p, b, NoBody)
               ELSE /\ Arrive(p, r, NoRow, "done", [status |-> 200, error |-> "None"])
                    /\ body' = Take(body, p,
                                    [b EXCEPT !.materials = getMaterials(materials, q.search)],
                                    NoBody)
            /\ UNCHANGED <<variant, now, materials, logs, logTimes, binTransactions>>
            /\ Observe

(* GET stats: getDashboardStats *)

\* `today = startOfDay(new Date())`, and the count of materials answered
StatsStart(p, budget) ==
    LET r == [NoReq EXCEPT !.op = "stats"]
    IN  /\ CanBegin(p, budget)
        /\ Arrive(p, r, NoRow, "statsEntered", NoRes)
        /\ body' = Take(body, p,
                        [NoBody EXCEPT !.today = startOfDay(now),
                                       !.totalMaterials = CountMaterials(materials)],
                        NoBody)
        /\ UNCHANGED <<variant, now, materials, logs, logTimes, binTransactions>>
        /\ Observe

\* the count of today's entry logs answered
StatsEntered(p) ==
    /\ pc[p] = "statsEntered"
    /\ body' = [body EXCEPT ![p].enteredToday =
                                CountLogs(logs, logTimes, "entry", body[p].today)]
    /\ pc' = [pc EXCEPT ![p] = "statsIssued"]
    /\ UNCHANGED <<variant, now, materials, logs, logTimes, binTransactions, req,
                   existing, material, balance, res, pre, served, fresh, plain, cleared>>
    /\ Observe

\* (mutant: the second count repeats the first)
StatsIssuedAsEntered(p) ==
    /\ pc[p] = "statsIssued"
    /\ body' = [body EXCEPT ![p].issuedToday =
                                CountLogs(logs, logTimes, "entry", body[p].today)]
    /\ pc' = [pc EXCEPT ![p] = "statsRecent"]
    /\ UNCHANGED <<variant, now, materials, logs, logTimes, binTransactions, req,
                   existing, material, balance, res, pre, served, fresh, plain, cleared>>
    /\ Observe

\* the count of today's issue logs answered
StatsIssued(p) ==
    /\ pc[p] = "statsIssued"
    /\ body' = [body EXCEPT ![p].issuedToday =
                                CountLogs(logs, logTimes, "issue", body[p].today)]
    /\ pc' = [pc EXCEPT ![p] = "statsRecent"]
    /\ UNCHANGED <<variant, now, materials, logs, logTimes, binTransactions, req,
                   existing, material, balance, res, pre, served, fresh, plain, cleared>>
    /\ Observe

\* `recentLogs = await this.getLogs(10)` answered, and the response
StatsRecent(p) ==
    /\ pc[p] = "statsRecent"
    /\ body' = [body EXCEPT ![p].recentLogs = getLogs(logs, logTimes, RecentLimit)]
    /\ Respond(p, req[p], [status |-> 200, error |-> "None"])
    /\ UNCHANGED <<variant, now, materials, logs, logTimes, binTransactions, req,
                   existing, material, balance, pre>>
    /\ Observe

(* the clock *)
Tick ==
    /\ now < MaxTime
    /\ now' = now + 1
    /\ UNCHANGED <<variant, materials, logs, logTimes, binTransactions, pc, req,
                   existing, material, balance, res, pre, served, fresh, body,
                   seen, plain, cleared>>

----------------------------------------------------------------------------
Step(p, budget, entryLocs, issueLocs) ==
    \/ EntryStart(p, budget, entryLocs)
    \/ EntryWrite(p)
    \/ IssueStart(p, budget, issueLocs)
    \/ IssueWrite(p)
    \/ CreateLogRead(p)
    \/ CreateLogInsert(p)
    \/ CreateBinTransaction(p)
    \/ DeleteMaterial(p, budget)
    \/ ResetInventory(p, budget)

\* requests of several clients, interleaved at their awaits; the store
\* answers every statement
Next == \E p \in Procs : Step(p, MaxConcOps, ConcLocs, ConcLocs)

Spec == Init /\ [][Next]_vars

\* one client, which sends a request only when the previous one was
\* answered (either variant); the store may reject the log and
\* bin-transaction inserts
NextSeq == Step("r1", MaxOps, EntryLocs, IssueLocs) \/ StoreFails("r1")

SeqSpec == Init /\ [][NextSeq]_vars

\* one client, and a store that answers every statement
NextSeqOk == Step("r1", MaxOps, EntryLocs, IssueLocs)

SeqOkSpec == Init /\ [][NextSeqOk]_vars

\* the steps of an entry or issue request in flight
Continue(p) ==
    \/ EntryWrite(p)
    \/ IssueWrite(p)
    \/ CreateLogRead(p)
    \/ CreateLogInsert(p)
    \/ CreateBinTransaction(p)

\* one client that records, clears and reads the logs and the dashboard,
\* while the clock runs
NextLog ==
    \/ EntryStart("r1", MaxOps, StatsLocs)
    \/ IssueStart("r1", MaxOps, StatsLocs)
    \/ Continue("r1")
    \/ ClearLogs("r1", MaxOps)
    \/ ListLogs("r1", MaxOps)
    \/ StatsStart("r1", MaxOps)
    \/ StatsEntered("r1")
    \/ StatsIssued("r1")
    \/ StatsRecent("r1")
    \/ Tick

LogSpec == Init /\ [][NextLog]_vars

\* one client that enters materials and searches them
NextSearch ==
    \/ EntryStart("r1", MaxOps, SearchLocs)
    \/ EntryWrite("r1")
    \/ CreateLogRead("r1")
    \/ CreateLogInsert("r1")
    \/ CreateBinTransaction("r1")
    \/ ListMaterials("r1", MaxOps)

SearchSpec == Init /\ [][NextSearch]_vars

\* stats calls beside the requests that change what they count
StatsStep(p) ==
    \/ EntryStart(p, MaxConcOps, StatsLocs)
    \/ IssueStart(p, MaxConcOps, StatsLocs)
    \/ Continue(p)
    \/ DeleteMaterial(p, MaxConcOps)
    \/ ClearLogs(p, MaxConcOps)
    \/ StatsStart(p, MaxConcOps)
    \/ StatsEntered(p)
    \/ StatsIssued(p)
    \/ StatsRecent(p)

\* the clock, as far as stats calls are concerned: a half day passes while
\* no request is running
TickBetween == InFlight = {} /\ Tick

NextStats == (\E p \in Procs : StatsStep(p)) \/ TickBetween

StatsSpec == Init /\ [][NextStats]_vars

----------------------------------------------------------------------------
(* Properties *)

\* the request of slot p was answered
Done(p) == pc[p] = "done"

\* ... with 200 or 201
Succeeded(p) == Done(p) /\ res[p].status \in {200, 201}

\* slot p served a recordEntry or recordIssue call
IsMutation(p) == req[p].op \in {"entry", "issue"}

\* the material row of the call's code when the call arrived, and now
Before(p) == pre[p].materials[req[p].code]
After(p) == materials[req[p].code]

\* two strings equal up to letter case
EqualIgnoringCase(a, b) == toUpperCase(a) = toUpperCase(b)

\* the supplied rack and bin equal the recorded ones up to letter case
LocationMatches(row, r) ==
    EqualIgnoringCase(row.rack, r.rack) /\ EqualIgnoringCase(row.bin, r.bin)

\* C1: every successful recordEntry/recordIssue call (calls one at a time)
\* leaves the logs as they were when it arrived plus exactly one Log, which
\* carries the call's action, code, quantity, rack and bin, and whose
\* balanceQty is the material's quantity in the store after the call.
C1_OneLogPerCall ==
    \A p \in Procs :
        (Succeeded(p) /\ IsMutation(p)) =>
            logs = Append(pre[p].logs,
                          [materialCode |-> req[p].code, action |-> req[p].op,
                           quantity |-> req[p].quantity, rack |-> req[p].rack,
                           bin |-> req[p].bin, balanceQty |-> After(p).quantity])

\* a successful issue that followed two logged calls
C1_Witness ==
    /\ Succeeded("r1") /\ req["r1"].op = "issue"
    /\ Len(logs) = 3 /\ logs[3].balanceQty = 1 /\ logs[2].action = "entry"

\* C2 (as claimed): an issue of more than the current quantity leaves the
\* material row unchanged and reports InsufficientQuantity, whatever rack/bin
\* is supplied.
C2_AlwaysInsufficientQuantity ==
    \A p \in Procs :
        (Done(p) /\ req[p].op = "issue" /\ Before(p).present
                 /\ req[p].quantity > Before(p).quantity) =>
            /\ After(p) = Before(p)
            /\ res[p].error = "InsufficientQuantity"

\* C2 (amended): an issue of more than the current quantity leaves the
\* material row unchanged and is rejected with status 400; the error is
\* InsufficientQuantity in the lenient variant and whenever the supplied
\* rack/bin are the recorded ones, and LocationMismatch in the strict
\* variant whenever the supplied rack or bin differs from the recorded one
\* by more than letter case (the location is checked first).
C2_RejectedUnchanged ==
    \A p \in Procs :
        (Done(p) /\ req[p].op = "issue" /\ Before(p).present
                 /\ req[p].quantity > Before(p).quantity) =>
            /\ After(p) = Before(p)
            /\ res[p].status = 400
            /\ res[p].error \in {"InsufficientQuantity", "LocationMismatch"}
            /\ (variant = "lenient" => res[p].error = "InsufficientQuantity")
            /\ (Before(p).rack = req[p].rack /\ Before(p).bin = req[p].bin
                   => res[p].error = "InsufficientQuantity")
            /\ (variant = "strict" /\ ~LocationMatches(Before(p), req[p])
                   => res[p].error = "LocationMismatch")

\* an issue of 2 from a stock of 1 at the recorded location, and one from
\* another rack, both rejected
C2_Witness ==
    /\ Done("r1") /\ req["r1"].op = "issue" /\ variant = "strict"
    /\ Before("r1").present /\ Before("r1").quantity = 1 /\ req["r1"].quantity = 2
    /\ Before("r1").rack = "B2" /\ req["r1"].rack = "B2" /\ req["r1"].bin = "01"
    /\ res["r1"].error = "InsufficientQuantity"

C4_IssueDecreasesQuantityExactBin ==
    \A p \in Procs :
        (Done(p) /\ req[p].op = "issue" /\ Before(p).present
                 /\ req[p].quantity <= Before(p).quantity
                 /\ EqualIgnoringCase(Before(p).rack, req[p].rack)
                 /\ Before(p).bin = req[p].bin) =>
            /\ After(p).present
            /\ After(p).quantity = Before(p).quantity - req[p].quantity
            /\ After(p).rack = Before(p).rack
            /\ After(p).bin = Before(p).bin

\* C5: after a sequence of successful recordEntry calls (one at a time) on a
\* code that had no row when the sequence began, the row's quantity is the
\* sum of the entered quantities and its rack/bin are those of the last call.
C5_EntriesAddUp ==
    \A c \in ReqCodes :
        (fresh[c].clean /\ fresh[c].calls >= 1 /\ Done("r1")) =>
            /\ materials[c].present
            /\ materials[c].quantity = fresh[c].sum
            /\ materials[c].rack = req["r1"].rack
            /\ materials[c].bin = req["r1"].bin

\* three entries of 2, 1 and 2 on a fresh code, the last one into B2/01
C5_Witness ==
    /\ fresh["TRIM-001"].clean /\ fresh["TRIM-001"].calls = 3
    /\ fresh["TRIM-001"].sum = 5 /\ Done("r1")
    /\ req["r1"].quantity = 2 /\ req["r1"].rack = "B2"
    /\ materials["TRIM-001"].quantity = 5

\* C6: under any interleaving of entry, issue, reset and delete requests,
\* every material row has quantity >= 0.
C6_QuantityNonNegative ==
    \A c \in Codes : materials[c].present => materials[c].quantity >= 0

\* an issue that read the quantity before a reset and wrote it after: the
\* row is back at the seeded quantity minus the issued one
C6_Witness ==
    \E p, q \in Procs :
        /\ Succeeded(p) /\ req[p].op = "issue"
        /\ Succeeded(q) /\ req[q].op = "reset"
        /\ pre[q].materials = pre[p].materials
        /\ materials["TRIM-001"].quantity = SeedQty - req[p].quantity

\* the two slots served an entry and an issue, or two entries, of the same
\* code, which overlapped, and no other request was served
Pair(p, q, opP, opQ) ==
    /\ p # q /\ Done(p) /\ Done(q) /\ served = 2
    /\ req[p].op = opP /\ req[q].op = opQ
    /\ req[p].code = req[q].code

\* the row of the pair's code before either request arrived ("r1" is the
\* slot of the first arrival)
Initially(p) == pre["r1"].materials[req[p].code]

\* C7 (as claimed): a concurrent entry(q1) and issue(q2) on the same
\* existing material, both answered with success, leave Q + q1 - q2.
C7_NoLostUpdate ==
    \A p, q \in Procs :
        (Pair(p, q, "entry", "issue") /\ Succeeded(p) /\ Succeeded(q)
            /\ Initially(p).present /\ Initially(p).quantity >= req[q].quantity) =>
            materials[req[p].code].quantity
                = Initially(p).quantity + req[p].quantity - req[q].quantity

\* C8 (as claimed): when an entry or issue request has ended, its change of
\* the material is never in the store without its Log and (strict variant)
\* its BinTransaction.
C8_NoPartialApplication ==
    \A p \in Procs :
        (Done(p) /\ IsMutation(p) /\ After(p) # Before(p)) =>
            /\ Len(logs) = Len(pre[p].logs) + 1
            /\ (variant = "strict" =>
                   Len(binTransactions) = Len(pre[p].binTransactions) + 1)

\* C9: an issue that failed with NotFound, LocationMismatch or
\* InsufficientQuantity left the materials, the logs and the bin
\* transactions as they were before the call.
C9_FailedIssueWritesNothing ==
    \A p \in Procs :
        (Done(p) /\ req[p].op = "issue"
                 /\ res[p].error \in {"NotFound", "LocationMismatch",
                                      "InsufficientQuantity"}) =>
            /\ materials = pre[p].materials
            /\ logs = pre[p].logs
            /\ binTransactions = pre[p].binTransactions

\* an issue of more than the stock, after an entry that was logged
C9_Witness ==
    /\ Done("r1") /\ req["r1"].op = "issue"
    /\ res["r1"].error = "InsufficientQuantity"
    /\ Len(logs) >= 1 /\ materials["TRIM-001"].quantity = 1

\* C10 (as claimed): two concurrent entries (q1, q2) on a code without a
\* row both complete without error and leave one row with quantity q1 + q2.
C10_ConcurrentCreate ==
    \A p, q \in Procs :
        (Pair(p, q, "entry", "entry") /\ ~Initially(p).present) =>
            /\ Succeeded(p) /\ Succeeded(q)
            /\ materials[req[p].code].present
            /\ materials[req[p].code].quantity = req[p].quantity + req[q].quantity

\* C11: a recordEntry call with valid input (calls one at a time, the store
\* answering every statement of the call) succeeds; it answers 201 exactly
\* when the code had no row when the call arrived and 200 exactly when it
\* had one; in the 201 case the row of the code is the supplied quantity,
\* rack and bin.
C11_EntryCreatedOrUpdated ==
    \A p \in Procs :
        (Done(p) /\ req[p].op = "entry" /\ res[p].error # "StoreUnavailable") =>
            /\ res[p].status \in {200, 201}
            /\ (res[p].status = 201) <=> ~Before(p).present
            /\ (res[p].status = 200) <=> Before(p).present
            /\ ~Before(p).present =>
                   After(p) = Row(req[p].quantity, req[p].rack, req[p].bin)

\* an entry answered 201 after the row was deleted, and the entry before it
\* that found the row
C11_Witness ==
    /\ Done("r1") /\ req["r1"].op = "entry" /\ res["r1"].status = 201
    /\ ~Before("r1").present /\ Len(pre["r1"].logs) >= 1
    /\ pre["r1"].logs[Len(pre["r1"].logs)].balanceQty > SeedQty
    /\ After("r1") = Row(2, "B2", "01")

\* C12: resetInventory sets the quantity of every material row to 0, keeps
\* the set of codes and every row's rack and bin, and leaves the logs and
\* the bin transactions as they were.
C12_ResetFrame ==
    \A p \in Procs :
        (Done(p) /\ req[p].op = "reset") =>
            /\ \A c \in Codes :
                   /\ materials[c].present = pre[p].materials[c].present
                   /\ materials[c].present =>
                          /\ materials[c].quantity = 0
                          /\ materials[c].rack = pre[p].materials[c].rack
                          /\ materials[c].bin = pre[p].materials[c].bin
            /\ logs = pre[p].logs
            /\ binTransactions = pre[p].binTransactions

\* a reset of two stocked rows, one of them moved by an entry that left a
\* log and a bin transaction
C12_Witness ==
    /\ Done("r1") /\ req["r1"].op = "reset"
    /\ \A c \in Codes : pre["r1"].materials[c].quantity > 0
    /\ pre["r1"].materials["TRIM-001"].bin = "7b"
    /\ materials["TRIM-001"] = Row(0, "A1", "7b")
    /\ Len(logs) >= 1 /\ Len(binTransactions) >= 1

\* C14: in the strict variant every BinTransaction row has exactly one of
\* receivedQty and issuedQty non-zero, and every successful recordEntry or
\* recordIssue call (calls one at a time) appends exactly one row: the
\* call's quantity as receivedQty (entry) or issuedQty (issue), the other
\* one 0, binLocation the supplied rack and bin joined by a hyphen, and
\* balanceQty the material's quantity after the call.
C14_BinTransactionRows ==
    /\ \A i \in 1..Len(binTransactions) :
           \/ binTransactions[i].receivedQty > 0 /\ binTransactions[i].issuedQty = 0
           \/ binTransactions[i].receivedQty = 0 /\ binTransactions[i].issuedQty > 0
    /\ \A p \in Procs :
           (variant = "strict" /\ Succeeded(p) /\ IsMutation(p)) =>
               binTransactions =
                   Append(pre[p].binTransactions,
                          [materialCode |-> req[p].code,
                           binLocation |-> <<req[p].rack, "-", req[p].bin>>,
                           receivedQty |-> IF req[p].op = "entry"
                                           THEN req[p].quantity ELSE 0,
                           issuedQty |-> IF req[p].op = "issue"
                                         THEN req[p].quantity ELSE 0,
                           balanceQty |-> After(p).quantity])

\* an issue recorded after an entry: two rows, received then issued
C14_Witness ==
    /\ variant = "strict" /\ Succeeded("r1") /\ req["r1"].op = "issue"
    /\ Len(binTransactions) = 2
    /\ binTransactions[1].receivedQty = 2 /\ binTransactions[1].issuedQty = 0
    /\ binTransactions[2].issuedQty = 1 /\ binTransactions[2].receivedQty = 0
    /\ binTransactions[2].balanceQty = SeedQty + 1

\* C13: under any interleaving of entry, issue, reset and delete requests, a
\* code without a row (never created, or deleted) gets a row only by the
\* create statement of a recordEntry call for that code which had found no
\* row, and the row then is the quantity, rack and bin of that call alone;
\* no statement of recordIssue or resetInventory, and no update of an entry
\* that had found a row, brings a row into existence.
C13_RowsAppearByEntryOnly ==
    [][\A c \in Codes :
           (~materials[c].present /\ materials'[c].present) =>
               \E p \in Procs :
                   /\ pc[p] = "entryWrite" /\ pc'[p] = "logRead"
                   /\ req[p].op = "entry" /\ req[p].code = c
                   /\ ~existing[p].present
                   /\ materials'[c] = Row(req[p].quantity, req[p].rack, req[p].bin)]_vars

\* an issue that read the row, whose update ran after a delete of the code
\* had completed: the update matched no row and the code still has none
C13_Witness ==
    \E p, q \in Procs :
        /\ req[p].op = "issue" /\ pc[p] = "logRead"
        /\ existing[p].present /\ ~material[p].present
        /\ Done(q) /\ req[q].op = "delete" /\ req[q].code = req[p].code
        /\ ~materials[req[p].code].present

\* C18: under any interleaving, a recordEntry/recordIssue call of the strict
\* variant that wrote both records left a Log and a BinTransaction of the
\* call with the same balanceQty, the quantity that the call's own material
\* update wrote.
C18_LogAndBinTransactionAgree ==
    \A p \in Procs :
        (variant = "strict" /\ Succeeded(p) /\ IsMutation(p)) =>
            \E i \in 1..Len(logs), j \in 1..Len(binTransactions) :
                /\ logs[i].materialCode = req[p].code
                /\ logs[i].action = req[p].op
                /\ logs[i].quantity = req[p].quantity
                /\ logs[i].rack = req[p].rack /\ logs[i].bin = req[p].bin
                /\ binTransactions[j] = BinTransactionRow(req[p], material[p])
                /\ logs[i].balanceQty = binTransactions[j].balanceQty
                /\ logs[i].balanceQty = material[p].quantity

\* C20: under any interleaving of entry, issue and delete requests, a Log
\* row is inserted only while a material row of its materialCode exists,
\* and an entry or issue is answered 200/201 only if its material update
\* or insert returned a row.
C20_NoOrphanLogWritten ==
    [][/\ Len(logs') > Len(logs) =>
              materials[logs'[Len(logs')].materialCode].present
       /\ \A p \in Procs :
              (IsMutation(p) /\ ~Succeeded(p) /\ Succeeded(p)') =>
                  material[p].present]_vars

\* the entry quantities minus the issue quantities of the Log rows of a code
RECURSIVE LedgerSum(_, _)
LedgerSum(ls, c) ==
    IF ls = << >> THEN 0
    ELSE LET last == ls[Len(ls)]
         IN  LedgerSum(SubSeq(ls, 1, Len(ls) - 1), c)
             + (IF last.materialCode # c THEN 0
                ELSE IF last.action = "entry" THEN last.quantity
                ELSE 0 - last.quantity)

\* the Log rows of a code, oldest first
LogsOf(c) == SelectSeq(logs, LAMBDA l : l.materialCode = c)

\* the ledger of code c reconciles with its material row
Reconciled(c) ==
    /\ materials[c].quantity = LedgerSum(logs, c)
    /\ LogsOf(c) # << >>
    /\ LogsOf(c)[Len(LogsOf(c))].balanceQty = materials[c].quantity

\* C19: for a code first created by recordEntry, after any sequence of
\* recordEntry and recordIssue calls, one at a time and with no reset,
\* delete or clearLogs, the material's quantity is the sum of the
\* quantities of its entry Logs minus that of its issue Logs, and the
\* balanceQty of its most recent Log is the material's quantity.
C19_LedgerReconciles ==
    \A c \in ReqCodes :
        (plain /\ InFlight = {} /\ materials[c].present) => Reconciled(c)

\* with a store that answers every statement the ledger does reconcile,
\* and a code without a row has no Log
C19_LedgerReconcilesStoreUp ==
    \A c \in ReqCodes :
        (plain /\ InFlight = {}) =>
            IF materials[c].present THEN Reconciled(c) ELSE LogsOf(c) = << >>

\* the request of slot p is a stats call that was answered
StatsDone(p) == Done(p) /\ req[p].op = "stats"

\* C15 (as claimed): the four values one computeDashboardStats call returns
\* are those of one store state that existed between the start and the end
\* of the call, also when entry, issue, delete or clearLogs requests run
\* beside it.
C15_SingleSnapshot ==
    \A p \in Procs : StatsDone(p) => StatsOf(body[p]) \in seen[p]

\* C15 (amended): each of the four values one computeDashboardStats call
\* returns is the value of a store state that existed between the start and
\* the end of the call (not necessarily the same state for the four), and
\* when the store stayed as it was through the call the four values are
\* those of that store.
C15_EachValueCurrent ==
    \A p \in Procs :
        StatsDone(p) =>
            /\ \E d \in seen[p] : body[p].totalMaterials = d.totalMaterials
            /\ \E d \in seen[p] : body[p].enteredToday = d.enteredToday
            /\ \E d \in seen[p] : body[p].issuedToday = d.issuedToday
            /\ \E d \in seen[p] : body[p].recentLogs = d.recentLogs
            /\ Cardinality(seen[p]) = 1 => StatsOf(body[p]) \in seen[p]

\* a stats call that counted an entry of today and then, the logs cleared
\* beside it, returned no recent log
C15_Witness ==
    \E p, q \in Procs :
        /\ StatsDone(p) /\ Done(q) /\ req[q].op = "clearLogs"
        /\ body[p].totalMaterials = 2 /\ body[p].enteredToday = 1
        /\ body[p].recentLogs = << >>
        /\ Cardinality(seen[p]) = 2

\* C16: clearLogs leaves no Log row; a listLogs answered after it with no
\* entry or issue in between returns the empty sequence, and a dashboard
\* computed then has enteredToday = 0 and issuedToday = 0 (and no recent
\* log).
C16_ClearedLogsStayEmpty ==
    \A p \in Procs :
        /\ (Done(p) /\ req[p].op = "clearLogs") => logs = << >>
        /\ (Done(p) /\ req[p].op = "listLogs" /\ cleared) => body[p].logs = << >>
        /\ (StatsDone(p) /\ cleared) =>
               /\ body[p].enteredToday = 0 /\ body[p].issuedToday = 0
               /\ body[p].recentLogs = << >>

\* a listLogs after a clearLogs that followed a recorded entry
C16_Witness ==
    /\ Done("r1") /\ req["r1"].op = "listLogs" /\ cleared
    /\ materials["TRIM-001"].quantity = SeedQty + 2
    /\ body["r1"].logs = << >>

\* C17: for every term rack:<R>-bin:<B>, R and B rack and bin values, and
\* every set of materials, listMaterials returns exactly the materials whose
\* rack equals R and whose bin equals B up to letter case.
C17_RackBinSearch ==
    \A p \in Procs :
        (Done(p) /\ req[p].op = "listMaterials" /\ req[p].rack # "") =>
            /\ body[p].search = RackBinTerm(req[p].rack, req[p].bin)
            /\ res[p].status = 200
            /\ body[p].materials =
                   {c \in Codes : /\ materials[c].present
                                  /\ LocationMatches(materials[c], req[p])}

\* rack:A1-bin:7b finds the material entered at a1/7B and not the one at
\* B2/15
C17_Witness ==
    /\ Done("r1") /\ req["r1"].op = "listMaterials"
    /\ req["r1"].rack = "A1" /\ req["r1"].bin = "7b"
    /\ materials["TRIM-001"].rack = "a1" /\ materials["TRIM-001"].bin = "7B"
    /\ materials["TRIM-002"].present
    /\ body["r1"].materials = {"TRIM-001"}

\* ... and rack:B2-bin:15 finds two materials
C17_WitnessTwo ==
    /\ Done("r1") /\ req["r1"].op = "listMaterials"
    /\ req["r1"].rack = "B2" /\ req["r1"].bin = "15"
    /\ body["r1"].materials = Codes

====
